---- MODULE Spec2Model ----
(***************************************************************************)
(* DoHNameServer (app/dns/nameserver_doh.go): the record store s.ips, the  *)
(* request counter, the pubsub topics, the QueryIP callers with their      *)
(* helper goroutine, and the per-request goroutines started by sendQuery.  *)
(*                                                                         *)
(* Strings are sequences of tokens, so that the concatenations the code    *)
(* performs (Fqdn, s.name + ".", domain + "4") are computed, not assumed.  *)
(***************************************************************************)
EXTENDS Integers, Sequences, FiniteSets, TLC

\* ------------------------------------------------------------------ bounds
\* number of QueryIP calls in one behaviour
NumCalls == 2
\* time.Now() runs over 0..MaxTime
MaxTime == 2
\* requests that the calls of one behaviour may ask for, in all
MaxReqs == 2

\* -------------------------------------------------------- program constants
\* uint16(...) of newReqID: 2^16
Mod16 == 65536
\* net.IPv6len
IPv6len == 16
\* TTL (in ticks) of an answer that carries records, and the default horizon
\* of an answer without records
RecordTTL == 0
DefaultTTL == 1

Calls == 1..NumCalls

\* ------------------------------------------------------------------ strings
Host == <<"dns.server">>
Prefix == "DOH"
\* prefix + "//" + url.Host
ServerName == <<Prefix, "//">> \o Host

\* the domains a caller passes to QueryIP: one not yet fully qualified, and
\* the (fully qualified) host of the upstream endpoint itself
InputDomains == { <<"example.com">>, Host \o <<".">> }

\* Fqdn: appends the trailing dot unless it is there
Fqdn(domain) ==
    IF Len(domain) > 0 /\ domain[Len(domain)] = "." THEN domain
    ELSE domain \o <<".">>

FqdnDomains == { Fqdn(d) : d \in InputDomains }

\* the pubsub topic of a family: domain + "4" / domain + "6"
Topic(domain, tag) == domain \o <<tag>>

\* sendQuery's guard: s.name + "." == "DOH//" + domain
IsSelfQuery(name, domain) == name \o <<".">> = <<"DOH", "//">> \o domain

\* ---------------------------------------------------------------- addresses
\* a net.Address holding an IP of 4 or 16 bytes
Addr(n, v) == [ip |-> [len |-> n, val |-> v]]
A4 == Addr(4, "93.184.216.34")
A6 == Addr(IPv6len, "2606:2800::1")

\* toNetIP: each address's IP
toNetIP(addrs) == [i \in DOMAIN addrs |-> addrs[i].ip]

\* the answers an upstream reply can decode to, per request type; an AAAA
\* reply may carry an address that is not 16 bytes long
AnswersFor(reqType) ==
    IF reqType = "A" THEN { <<>>, <<A4>> }
    ELSE { <<>>, <<A4, A6>> }

\* ------------------------------------------------------------------ records
\* a nil *IPRecord
Nil == [ReqID |-> -1, IP |-> <<>>, Expire |-> -1]
IPRecord(id, ip, expire) == [ReqID |-> id, IP |-> ip, Expire |-> expire]
\* &record{}
EmptyRecord == [A |-> Nil, AAAA |-> Nil]

\* errors
ErrNone == "nil"
errRecordNotFound == "errRecordNotFound"
ErrEmptyResponse == "ErrEmptyResponse"
ErrCtx == "ctx.Err"

\* IPRecord.getIPs: an absent answer yields no addresses and no error
getIPs(r) == IF r = Nil THEN [ips |-> <<>>, err |-> ErrNone]
             ELSE [ips |-> r.IP, err |-> ErrNone]

\* signed 16-bit value of a difference of two request sequences
Signed16(x) == LET m == x % Mod16 IN IF m >= Mod16 \div 2 THEN m - Mod16 ELSE m

\* isNewer: the candidate supersedes the cached answer if there is none, or
\* if its request sequence is later under 16-bit wraparound
isNewer(baseRec, newRec) ==
    IF newRec = Nil THEN FALSE
    ELSE IF baseRec = Nil THEN TRUE
    ELSE Signed16(newRec.ReqID - baseRec.ReqID) > 0

\* the 16-byte addresses of an AAAA answer, in order
RECURSIVE FilterV6(_)
FilterV6(ip) ==
    IF ip = <<>> THEN <<>>
    ELSE IF Head(ip).ip.len = IPv6len THEN <<Head(ip)>> \o FilterV6(Tail(ip))
    ELSE FilterV6(Tail(ip))

\* ---------------------------------------------------------- findIPsForDomain
\* The local state of one findIPsForDomain: where it stands, the addresses
\* gathered, err4 and err6, and (at "ret") what it returns.
FindStart == [pc |-> "find", ips |-> <<>>, err4 |-> ErrNone, err6 |-> ErrNone,
              out |-> [ips |-> <<>>, err |-> ErrNone]]

FindRet(l, ips, err) ==
    [l EXCEPT !.pc = "ret", !.out = [ips |-> ips, err |-> err]]

\* FindTail without the check of line 346: an empty answer reads as no record
FindTailNoEmptyCheck(l, option) ==
    IF Len(l.ips) > 0 THEN FindRet(l, toNetIP(l.ips), ErrNone)
    ELSE IF l.err4 # ErrNone THEN FindRet(l, <<>>, l.err4)
    ELSE IF l.err6 # ErrNone THEN FindRet(l, <<>>, l.err6)
    ELSE FindRet(l, <<>>, errRecordNotFound)

\* lines 334-346 up to the first read of the record at line 346
FindTail(l, option) ==
    IF Len(l.ips) > 0 THEN FindRet(l, toNetIP(l.ips), ErrNone)
    ELSE IF l.err4 # ErrNone THEN FindRet(l, <<>>, l.err4)
    ELSE IF l.err6 # ErrNone THEN FindRet(l, <<>>, l.err6)
    ELSE IF option.IPv4Enable THEN [l EXCEPT !.pc = "chk4"]
    ELSE IF option.IPv6Enable THEN [l EXCEPT !.pc = "chk6"]
    ELSE FindRet(l, <<>>, errRecordNotFound)

\* One read of shared state and the local computation after it. found and r
\* are what the read sees: at "find" the map entry (under RLock), later the
\* record behind the pointer obtained there.
FindStep(l, option, found, r) ==
    CASE l.pc = "find" ->
           IF ~found THEN FindRet(l, <<>>, errRecordNotFound)
           ELSE IF option.IPv4Enable
                THEN LET g == getIPs(r.A)
                         l1 == [l EXCEPT !.ips = g.ips, !.err4 = g.err]
                     IN  IF option.IPv6Enable THEN [l1 EXCEPT !.pc = "read6"]
                         ELSE FindTail(l1, option)
           ELSE IF option.IPv6Enable
                THEN LET g == getIPs(r.AAAA)
                     IN  FindTail([l EXCEPT !.ips = l.ips \o g.ips, !.err6 = g.err],
                                  option)
           ELSE FindTail(l, option)
      [] l.pc = "read6" ->
           LET g == getIPs(r.AAAA)
           IN  FindTail([l EXCEPT !.ips = l.ips \o g.ips, !.err6 = g.err], option)
      [] l.pc = "chk4" ->
           IF r.A # Nil THEN FindRet(l, <<>>, ErrEmptyResponse)
           ELSE IF option.IPv6Enable THEN [l EXCEPT !.pc = "chk6"]
           ELSE FindRet(l, <<>>, errRecordNotFound)
      [] l.pc = "chk6" ->
           IF r.AAAA # Nil THEN FindRet(l, <<>>, ErrEmptyResponse)
           ELSE FindRet(l, <<>>, errRecordNotFound)
      [] OTHER -> l

\* findIPsForDomain run to its end against one store: every read sees store
RECURSIVE FindRun(_, _, _, _)
FindRun(l, option, found, r) ==
    IF l.pc = "ret" THEN l.out
    ELSE FindRun(FindStep(l, option, found, r), option, found, r)

findIPsForDomain(store, domain, option) ==
    LET found == domain \in DOMAIN store
    IN  FindRun(FindStart, option, found,
                IF found THEN store[domain] ELSE EmptyRecord)

\* ------------------------------------------------------------------ Cleanup
\* Sweep that clears at most one slot of a record in a run
SweepOneSlot(r, t) ==
    IF r.A # Nil /\ r.A.Expire < t THEN [r EXCEPT !.A = Nil]
    ELSE IF r.AAAA # Nil /\ r.AAAA.Expire < t THEN [r EXCEPT !.AAAA = Nil]
    ELSE r

\* the body of the loop at lines 155-160 for one record
Sweep(r, t) ==
    [A    |-> IF r.A # Nil /\ r.A.Expire < t THEN Nil ELSE r.A,
     AAAA |-> IF r.AAAA # Nil /\ r.AAAA.Expire < t THEN Nil ELSE r.AAAA]

\* the error of line 151
NothingToDo == "nothing to do. stopping..."

\* Cleanup without the delete of line 164: a record swept empty stays
CleanupKeepsEmpty(store, t) ==
    IF DOMAIN store = {}
    THEN [ips |-> store, err |-> NothingToDo]
    ELSE [ips |-> [d \in DOMAIN store |-> Sweep(store[d], t)], err |-> ErrNone]

\* Cleanup at time t: the store it leaves and the error it returns
Cleanup(store, t) ==
    IF DOMAIN store = {}
    THEN [ips |-> store, err |-> NothingToDo]
    ELSE LET keep == { d \in DOMAIN store : Sweep(store[d], t) # EmptyRecord }
         IN  [ips |-> [d \in keep |-> Sweep(store[d], t)], err |-> ErrNone]

\* ----------------------------------------------------------------- updateIP
\* updateIP without the guard: the reply that arrives last is stored
updateIPNoGuard(store, domain, reqType, ipRec) ==
    LET rec == IF domain \in DOMAIN store THEN store[domain] ELSE EmptyRecord
        cand == IF reqType = "AAAA" THEN [ipRec EXCEPT !.IP = FilterV6(ipRec.IP)]
                ELSE ipRec
        rec1 == IF reqType = "A" THEN [rec EXCEPT !.A = cand]
                ELSE [rec EXCEPT !.AAAA = cand]
    IN  [d \in DOMAIN store \cup {domain} |-> IF d = domain THEN rec1 ELSE store[d]]

\* updateIP that fills an empty slot only: a cached answer is never replaced
updateIPKeepsFirst(store, domain, reqType, ipRec) ==
    LET rec == IF domain \in DOMAIN store THEN store[domain] ELSE EmptyRecord
        cand == IF reqType = "AAAA" THEN [ipRec EXCEPT !.IP = FilterV6(ipRec.IP)]
                ELSE ipRec
        rec1 == IF reqType = "A" THEN [rec EXCEPT !.A = IF @ = Nil THEN cand ELSE @]
                ELSE [rec EXCEPT !.AAAA = IF @ = Nil THEN cand ELSE @]
    IN  [d \in DOMAIN store \cup {domain} |-> IF d = domain THEN rec1 ELSE store[d]]

\* the store after updateIP(req, ipRec), lines 180-210
updateIP(store, domain, reqType, ipRec) ==
    LET found == domain \in DOMAIN store
        rec == IF found THEN store[domain] ELSE EmptyRecord
        cand == IF reqType = "AAAA" THEN [ipRec EXCEPT !.IP = FilterV6(ipRec.IP)]
                ELSE ipRec
        updated == IF reqType = "A" THEN isNewer(rec.A, cand)
                   ELSE isNewer(rec.AAAA, cand)
        rec1 == IF ~updated THEN rec
                ELSE IF reqType = "A" THEN [rec EXCEPT !.A = cand]
                ELSE [rec EXCEPT !.AAAA = cand]
    IN  IF updated
        THEN [d \in DOMAIN store \cup {domain} |->
                 IF d = domain THEN rec1 ELSE store[d]]
        ELSE store

\* PublishTopic with the suffixes of the two families exchanged
PublishTopicOtherFamily(domain, reqType) ==
    IF reqType = "A" THEN Topic(domain, "6") ELSE Topic(domain, "4")

\* the topic updateIP publishes on, lines 211-216
PublishTopic(domain, reqType) ==
    IF reqType = "A" THEN Topic(domain, "4") ELSE Topic(domain, "6")

\* parseResponse: the answer of one reply, expiring after the TTL of its
\* records or after the default horizon when it has none
parseResponse(id, answer, t) ==
    IPRecord(id, answer, t + (IF answer = <<>> THEN DefaultTTL ELSE RecordTTL))

\* s.reqID is a uint32, held as its two 16-bit halves: hi * 2^16 + lo
Counter(hi, lo) == [hi |-> hi, lo |-> lo]

\* atomic.AddUint32(&s.reqID, 1): the counter after the add, modulo 2^32
NextCounter(counter) ==
    IF counter.lo + 1 < Mod16 THEN [counter EXCEPT !.lo = @ + 1]
    ELSE Counter((counter.hi + 1) % Mod16, 0)

\* newReqID: uint16 of the counter after the add
newReqID(counter) == NextCounter(counter).lo

\* -------------------------------------------------------------------- state
VARIABLES
    now,            \* time.Now()
    ips,            \* s.ips: fqdn -> record
    reqID,          \* s.reqID (uint32)
    cleanupRunning, \* s.cleanup is started
    call,           \* the QueryIP calls: position and locals
    sub,            \* s.pub: the calls' subscribers sub4 and sub6
    waiter,         \* the goroutine of lines 379-393 and the channel done
    ctx,            \* the calls' contexts
    req             \* the goroutines of lines 243-281, one per dnsRequest

vars == <<now, ips, reqID, cleanupRunning, call, sub, waiter, ctx, req>>

ReqTypes == {"A", "AAAA"}

Options == { [IPv4Enable |-> TRUE,  IPv6Enable |-> FALSE],
             [IPv4Enable |-> FALSE, IPv6Enable |-> TRUE],
             [IPv4Enable |-> TRUE,  IPv6Enable |-> TRUE] }

NoResult == [ips |-> <<>>, err |-> "none"]

IdleCall == [pc |-> "idle", domain |-> <<>>,
             option |-> [IPv4Enable |-> FALSE, IPv6Enable |-> FALSE],
             phase |-> "check",   \* at the lookup of line 360 ("check"), past
                                  \* line 358 with disableCache ("bypass"), or
                                  \* past sendQuery ("loop")
             record |-> "nil",    \* findIPsForDomain's record: nil, live or stale
             find |-> FindStart,  \* findIPsForDomain's locals
             result |-> NoResult, \* what QueryIP returned
             nsent |-> 0]         \* requests dispatched by this call

\* a nil *pubsub.Subscriber
NoSub == [name |-> <<>>, st |-> "nil"]
NoReq == [st |-> "none", ReqID |-> -1]
\* a request goroutine that has returned: after updateIP, or on an error
EndReq == [st |-> "end", ReqID |-> -1]
FailedReq == [st |-> "failed", ReqID |-> -1]

Init ==
    /\ now = 0
    /\ ips = << >>
    /\ reqID = Counter(0, 0)
    /\ cleanupRunning = FALSE
    /\ call = [c \in Calls |-> IdleCall]
    /\ sub = [c \in Calls |-> [sub4 |-> NoSub, sub6 |-> NoSub]]
    /\ waiter = [c \in Calls |-> [pc |-> "none", done |-> FALSE]]
    /\ ctx = [c \in Calls |-> "active"]
    /\ req = [c \in Calls |-> [t \in ReqTypes |-> NoReq]]

\* ------------------------------------------------------------------- pubsub
\* Subscribe(name): a waiter on the topic
Subscribe(name) == [name |-> name, st |-> "open"]

\* Subscriber.Close()
CloseSub(s) == IF s.st = "nil" THEN s ELSE [s EXCEPT !.st = "closed"]

\* Publish(name): every current waiter on the topic is woken, once; nothing
\* is kept for a later subscriber
PublishOne(s, name) ==
    IF s.st = "open" /\ s.name = name THEN [s EXCEPT !.st = "signalled"] ELSE s

Publish(subs, name) ==
    [c \in DOMAIN subs |-> [sub4 |-> PublishOne(subs[c].sub4, name),
                            sub6 |-> PublishOne(subs[c].sub6, name)]]

\* <-sub.Wait() can proceed: the topic was published or the handle discarded
SubReady(s) == s.st \in {"signalled", "closed"}

\* CloseSubs without the two deferred calls
CloseSubsNone(subs, c) == subs

\* the deferred sub4.Close() and sub6.Close() of lines 372 and 376
CloseSubs(subs, c) ==
    [subs EXCEPT ![c] = [sub4 |-> CloseSub(@.sub4), sub6 |-> CloseSub(@.sub6)]]

\* ------------------------------------------------------------------ QueryIP
\* the families an option asks for, and those asked for by the calls so far
Families(option) ==
    (IF option.IPv4Enable THEN 1 ELSE 0) + (IF option.IPv6Enable THEN 1 ELSE 0)

\* the requests a call for domain with option can lead to
Wanted(domain, option) ==
    IF IsSelfQuery(ServerName, Fqdn(domain)) THEN 0 ELSE Families(option)

RECURSIVE AskedUpTo(_, _)
AskedUpTo(calls, n) ==
    IF n = 0 THEN 0
    ELSE Wanted(calls[n].domain, calls[n].option) + AskedUpTo(calls, n - 1)

Asked(calls) == AskedUpTo(calls, NumCalls)

\* lines 355-359: the call starts; with disableCache it skips the lookup.
\* Calls are interchangeable: they start in the order of their numbers.
QueryIP(c, domain, option, disableCache) ==
    /\ call[c].pc = "idle"
    /\ \A b \in Calls : b < c => call[b].pc # "idle"
    /\ Asked(call) + Wanted(domain, option) <= MaxReqs
    /\ call' = [call EXCEPT ![c] =
                  [@ EXCEPT !.pc = IF disableCache THEN "subscribe" ELSE "find",
                            !.domain = Fqdn(domain),
                            !.option = option,
                            !.phase = IF disableCache THEN "bypass" ELSE "check",
                            !.find = FindStart]]
    /\ UNCHANGED <<now, ips, reqID, cleanupRunning, sub, waiter, ctx, req>>

\* what a read by call c sees: the map entry at "find", afterwards the
\* record behind its pointer (a record deleted from the map stays empty)
SeenFound(c) == call[c].domain \in DOMAIN ips
SeenRecord(c) ==
    IF call[c].find.pc = "find"
    THEN IF SeenFound(c) THEN ips[call[c].domain] ELSE EmptyRecord
    ELSE IF call[c].record = "live" THEN ips[call[c].domain] ELSE EmptyRecord

\* AfterFind with "err == nil" for "err != errRecordNotFound": an empty
\* answer does not end the call
AfterFindOnlyData(phase, out) ==
    IF out.err = ErrNone THEN "return"
    ELSE IF phase = "check" THEN "subscribe"
    ELSE "select"

\* AfterFind whose loop returns whatever the lookup gave
AfterFindReturnsMiss(phase, out) ==
    IF out.err # errRecordNotFound \/ phase = "loop" THEN "return"
    ELSE "subscribe"

\* AfterFind with sendQuery inside the loop: a miss in the loop sends again
AfterFindResends(phase, out) ==
    IF out.err # errRecordNotFound THEN "return"
    ELSE IF phase = "check" THEN "subscribe"
    ELSE "send"

\* what QueryIP does with the result of a lookup: lines 361-365 and 399-402
AfterFind(phase, out) ==
    IF out.err # errRecordNotFound THEN "return"
    ELSE IF phase = "check" THEN "subscribe"
    ELSE "select"

\* one read of findIPsForDomain by call c and, when the lookup ends with it,
\* the caller's branch on its result
Find(c) ==
    /\ call[c].pc = "find"
    /\ LET l == FindStep(call[c].find, call[c].option, SeenFound(c), SeenRecord(c))
           ptr == IF call[c].find.pc = "find"
                  THEN IF SeenFound(c) THEN "live" ELSE "nil"
                  ELSE call[c].record
       IN  IF l.pc # "ret"
           THEN /\ call' = [call EXCEPT ![c] = [@ EXCEPT !.find = l, !.record = ptr]]
                /\ sub' = sub
           ELSE LET to == AfterFind(call[c].phase, l.out)
                IN  /\ call' = [call EXCEPT ![c] =
                          [@ EXCEPT !.find = FindStart,
                                    !.record = "nil",
                                    !.pc = IF to = "return" THEN "done" ELSE to,
                                    !.result = IF to = "return" THEN l.out ELSE @]]
                    /\ sub' = IF to = "return" THEN CloseSubs(sub, c) ELSE sub
    /\ UNCHANGED <<now, ips, reqID, cleanupRunning, waiter, ctx, req>>

\* SubscribeAll without the subscription of lines 370-373
SubscribeOnly6(c) ==
    /\ call[c].pc = "subscribe"
    /\ call' = [call EXCEPT ![c] = [@ EXCEPT !.pc = "send"]]
    /\ sub' = [sub EXCEPT ![c] =
                 [sub4 |-> NoSub,
                  sub6 |-> IF call[c].option.IPv6Enable
                           THEN Subscribe(Topic(call[c].domain, "6")) ELSE NoSub]]
    /\ waiter' = [waiter EXCEPT ![c] =
                    [pc |-> IF call[c].option.IPv6Enable THEN "wait6" ELSE "exit",
                     done |-> ~call[c].option.IPv6Enable]]
    /\ UNCHANGED <<now, ips, reqID, cleanupRunning, ctx, req>>

\* lines 369-393: the subscriptions, and the goroutine that waits on them
SubscribeAll(c) ==
    /\ call[c].pc = "subscribe"
    /\ call' = [call EXCEPT ![c] = [@ EXCEPT !.pc = "send"]]
    /\ sub' = [sub EXCEPT ![c] =
                 [sub4 |-> IF call[c].option.IPv4Enable
                           THEN Subscribe(Topic(call[c].domain, "4")) ELSE NoSub,
                  sub6 |-> IF call[c].option.IPv6Enable
                           THEN Subscribe(Topic(call[c].domain, "6")) ELSE NoSub]]
    /\ waiter' = [waiter EXCEPT ![c] =
                    [pc |-> IF call[c].option.IPv4Enable THEN "wait4"
                            ELSE IF call[c].option.IPv6Enable THEN "wait6"
                            ELSE "exit",
                     done |-> ~call[c].option.IPv4Enable /\ ~call[c].option.IPv6Enable]]
    /\ UNCHANGED <<now, ips, reqID, cleanupRunning, ctx, req>>

\* ---------------------------------------------------------------- sendQuery
\* buildReqMsgs gives each family's request a fresh id; sendQuery starts one
\* goroutine per request
Dispatch(c, t, next) ==
    /\ reqID' = NextCounter(reqID)
    /\ req' = [req EXCEPT ![c][t] = [st |-> "sent", ReqID |-> newReqID(reqID)]]
    /\ call' = [call EXCEPT ![c] =
                  [@ EXCEPT !.pc = next, !.nsent = @ + 1,
                            !.phase = "loop", !.find = FindStart]]

\* SendQuery that asks the store first and dispatches nothing on a hit
SendQueryOnlyOnMiss(c) ==
    /\ call[c].pc = "send"
    /\ IF \/ IsSelfQuery(ServerName, call[c].domain)
          \/ findIPsForDomain(ips, call[c].domain, call[c].option).err
                # errRecordNotFound
       THEN /\ call' = [call EXCEPT ![c] =
                         [@ EXCEPT !.pc = "find", !.phase = "loop",
                                   !.find = FindStart]]
            /\ UNCHANGED <<reqID, req>>
       ELSE IF call[c].option.IPv4Enable
            THEN Dispatch(c, "A", IF call[c].option.IPv6Enable THEN "send6" ELSE "find")
            ELSE Dispatch(c, "AAAA", "find")
    /\ UNCHANGED <<now, ips, cleanupRunning, sub, waiter, ctx>>

\* line 394, sendQuery: the self-query guard of lines 228-231 returns without
\* a request; otherwise the first family's request is dispatched
SendQuery(c) ==
    /\ call[c].pc = "send"
    /\ IF IsSelfQuery(ServerName, call[c].domain)
       THEN /\ call' = [call EXCEPT ![c] =
                         [@ EXCEPT !.pc = "find", !.phase = "loop",
                                   !.find = FindStart]]
            /\ UNCHANGED <<reqID, req>>
       ELSE IF call[c].option.IPv4Enable
            THEN Dispatch(c, "A", IF call[c].option.IPv6Enable THEN "send6" ELSE "find")
            ELSE Dispatch(c, "AAAA", "find")
    /\ UNCHANGED <<now, ips, cleanupRunning, sub, waiter, ctx>>

\* the AAAA request of a call that asked for both families
SendQuery6(c) ==
    /\ call[c].pc = "send6"
    /\ Dispatch(c, "AAAA", "find")
    /\ UNCHANGED <<now, ips, cleanupRunning, sub, waiter, ctx>>

\* ------------------------------------------------------- the wait goroutine
\* lines 380-392: wait for sub4 (or ctx), then for sub6 (or ctx), then close
\* done
WaitSub4(c) ==
    /\ waiter[c].pc = "wait4"
    /\ SubReady(sub[c].sub4) \/ ctx[c] = "done"
    /\ waiter' = [waiter EXCEPT ![c] =
                    IF sub[c].sub6.st # "nil" THEN [pc |-> "wait6", done |-> FALSE]
                    ELSE [pc |-> "exit", done |-> TRUE]]
    /\ UNCHANGED <<now, ips, reqID, cleanupRunning, call, sub, ctx, req>>

WaitSub6(c) ==
    /\ waiter[c].pc = "wait6"
    /\ SubReady(sub[c].sub6) \/ ctx[c] = "done"
    /\ waiter' = [waiter EXCEPT ![c] = [pc |-> "exit", done |-> TRUE]]
    /\ UNCHANGED <<now, ips, reqID, cleanupRunning, call, sub, ctx, req>>

\* ----------------------------------------------------------- the wait loop
\* SelectCtx without the case <-ctx.Done() of line 405: the select has only
\* the case <-done
SelectCtxNoCase(c) ==
    /\ call[c].pc = "select"
    /\ FALSE
    /\ UNCHANGED vars

\* lines 404-408, case <-ctx.Done(): return nil, ctx.Err()
SelectCtx(c) ==
    /\ call[c].pc = "select"
    /\ ctx[c] = "done"
    /\ call' = [call EXCEPT ![c] =
                  [@ EXCEPT !.pc = "done", !.result = [ips |-> <<>>, err |-> ErrCtx]]]
    /\ sub' = CloseSubs(sub, c)
    /\ UNCHANGED <<now, ips, reqID, cleanupRunning, waiter, ctx, req>>

\* case <-done: the loop looks the domain up again
SelectDone(c) ==
    /\ call[c].pc = "select"
    /\ waiter[c].done
    /\ call' = [call EXCEPT ![c] = [@ EXCEPT !.pc = "find", !.find = FindStart]]
    /\ UNCHANGED <<now, ips, reqID, cleanupRunning, sub, waiter, ctx, req>>

\* Cancel with one context shared by all the calls
CancelAll(c) ==
    /\ ctx[c] = "active"
    /\ call[c].pc # "idle"
    /\ ctx' = [b \in Calls |-> "done"]
    /\ UNCHANGED <<now, ips, reqID, cleanupRunning, call, sub, waiter, req>>

\* the caller cancels its context, or the context's deadline passes. It is
\* left out once nothing of the call reads the context any more.
Cancel(c) ==
    /\ ctx[c] = "active"
    /\ call[c].pc # "idle"
    /\ \/ call[c].pc # "done"
       \/ waiter[c].pc \in {"wait4", "wait6"}
       \/ \E t \in ReqTypes : req[c][t].st = "sent"
    /\ ctx' = [ctx EXCEPT ![c] = "done"]
    /\ UNCHANGED <<now, ips, reqID, cleanupRunning, call, sub, waiter, req>>

\* ------------------------------------------------- the request goroutines
\* lines 265-279: the request fails: it cannot be packed, the transport
\* fails (also by the deadline or the cancellation of dnsCtx), the status is
\* not 200, or the reply cannot be parsed. Nothing is updated or published.
ReqFail(c, t) ==
    /\ req[c][t].st \in {"sent", "got"}
    /\ req' = [req EXCEPT ![c][t] = FailedReq]
    /\ UNCHANGED <<now, ips, reqID, cleanupRunning, call, sub, waiter, ctx>>

\* line 270: dohHTTPSContext returns the reply; dnsCtx, a child of the
\* caller's ctx, was alive until then
ReqReply(c, t) ==
    /\ req[c][t].st = "sent"
    /\ ctx[c] = "active"
    /\ req' = [req EXCEPT ![c][t] = [@ EXCEPT !.st = "got"]]
    /\ UNCHANGED <<now, ips, reqID, cleanupRunning, call, sub, waiter, ctx>>

\* the calls whose findIPsForDomain holds a record that Cleanup deletes keep
\* a pointer to a record that is no longer in the map
Unlink(calls, store) ==
    [c \in DOMAIN calls |->
        IF calls[c].record = "live" /\ calls[c].domain \notin DOMAIN store
        THEN [calls[c] EXCEPT !.record = "stale"] ELSE calls[c]]

\* the store after updateIP and the s.cleanup.Start() that ends it (line
\* 218): a task that is not running is started and runs Cleanup at once
StoreAfterUpdate(store, running, domain, reqType, ipRec, t) ==
    LET merged == updateIP(store, domain, reqType, ipRec)
    IN  IF running THEN merged ELSE Cleanup(merged, t).ips

\* UpdateIP that publishes only when the answer was stored
UpdateIPPublishIfUpdated(c, t, answer) ==
    /\ req[c][t].st = "got"
    /\ LET ipRec == parseResponse(req[c][t].ReqID, answer, now)
           store == StoreAfterUpdate(ips, cleanupRunning, call[c].domain, t, ipRec, now)
       IN  /\ ips' = store
           /\ call' = Unlink(call, store)
           /\ sub' = IF updateIP(ips, call[c].domain, t, ipRec) = ips THEN sub
                     ELSE Publish(sub, PublishTopic(call[c].domain, t))
    /\ cleanupRunning' = TRUE
    /\ req' = [req EXCEPT ![c][t] = EndReq]
    /\ UNCHANGED <<now, reqID, waiter, ctx>>

\* lines 275-280: the reply parses to answer, and updateIP merges it,
\* publishes on the family's topic and starts the cleanup task
UpdateIP(c, t, answer) ==
    /\ req[c][t].st = "got"
    /\ LET ipRec == parseResponse(req[c][t].ReqID, answer, now)
           store == StoreAfterUpdate(ips, cleanupRunning, call[c].domain, t, ipRec, now)
       IN  /\ ips' = store
           /\ call' = Unlink(call, store)
    /\ cleanupRunning' = TRUE
    /\ sub' = Publish(sub, PublishTopic(call[c].domain, t))
    /\ req' = [req EXCEPT ![c][t] = EndReq]
    /\ UNCHANGED <<now, reqID, waiter, ctx>>

\* the periodic task runs Cleanup; it stops when Cleanup returns an error
CleanupTimer ==
    /\ cleanupRunning
    /\ LET r == Cleanup(ips, now)
       IN  /\ ips' = r.ips
           /\ cleanupRunning' = (r.err = ErrNone)
           /\ call' = Unlink(call, r.ips)
    /\ UNCHANGED <<now, reqID, sub, waiter, ctx, req>>

\* time passes. Expiry times are set relative to now, so the passage of time
\* shows only while the store holds a record.
Tick ==
    /\ now < MaxTime
    /\ DOMAIN ips # {}
    /\ now' = now + 1
    /\ UNCHANGED <<ips, reqID, cleanupRunning, call, sub, waiter, ctx, req>>

Next ==
    \/ \E c \in Calls, d \in InputDomains, o \in Options, nc \in BOOLEAN :
          QueryIP(c, d, o, nc)
    \/ \E c \in Calls : Find(c)
    \/ \E c \in Calls : SubscribeAll(c)
    \/ \E c \in Calls : SendQuery(c)
    \/ \E c \in Calls : SendQuery6(c)
    \/ \E c \in Calls : WaitSub4(c)
    \/ \E c \in Calls : WaitSub6(c)
    \/ \E c \in Calls : SelectCtx(c)
    \/ \E c \in Calls : SelectDone(c)
    \/ \E c \in Calls : Cancel(c)
    \/ \E c \in Calls, t \in ReqTypes : ReqFail(c, t)
    \/ \E c \in Calls, t \in ReqTypes : ReqReply(c, t)
    \/ \E c \in Calls, t \in ReqTypes : \E a \in AnswersFor(t) : UpdateIP(c, t, a)
    \/ CleanupTimer
    \/ Tick

Spec == Init /\ [][Next]_vars

\* ------------------------------------------------------------- scheduling
\* Every goroutine that can take a step takes one in the end (the Go
\* scheduler); a select with several ready cases picks one at random, so a
\* case that is ready again and again is taken in the end; a request ends in
\* the end, by its reply or by the deadline of lines 235-240. Nothing makes a
\* caller call, or cancel, and time need not pass.
Fairness ==
    \A c \in Calls :
        /\ WF_vars(Find(c))
        /\ WF_vars(SubscribeAll(c))
        /\ WF_vars(SendQuery(c))
        /\ WF_vars(SendQuery6(c))
        /\ WF_vars(WaitSub4(c))
        /\ WF_vars(WaitSub6(c))
        /\ SF_vars(SelectCtx(c))
        /\ SF_vars(SelectDone(c))
        /\ \A t \in ReqTypes :
              /\ WF_vars(ReqFail(c, t) \/ ReqReply(c, t))
              /\ WF_vars(ReqFail(c, t) \/ \E a \in AnswersFor(t) : UpdateIP(c, t, a))

\* A run within the lifetime of the answers: time does not pass, so that the
\* cleanup task, started by updateIP, finds nothing to remove. The calls are
\* for one domain, which is not the upstream.
LiveDomains == { <<"example.com">> }

NextLive ==
    \/ \E c \in Calls, d \in LiveDomains, o \in Options, nc \in BOOLEAN :
          QueryIP(c, d, o, nc)
    \/ \E c \in Calls : Find(c)
    \/ \E c \in Calls : SubscribeAll(c)
    \/ \E c \in Calls : SendQuery(c)
    \/ \E c \in Calls : SendQuery6(c)
    \/ \E c \in Calls : WaitSub4(c)
    \/ \E c \in Calls : WaitSub6(c)
    \/ \E c \in Calls : SelectCtx(c)
    \/ \E c \in Calls : SelectDone(c)
    \/ \E c \in Calls : Cancel(c)
    \/ \E c \in Calls, t \in ReqTypes : ReqFail(c, t)
    \/ \E c \in Calls, t \in ReqTypes : ReqReply(c, t)
    \/ \E c \in Calls, t \in ReqTypes : \E a \in AnswersFor(t) : UpdateIP(c, t, a)

SpecLive == Init /\ [][NextLive]_vars /\ Fairness

\* ------------------------------------------------ the counter near a wrap
\* The server after it has issued many requests. Either the counter stands
\* two short of a 16-bit wrap and nothing is in flight; or call 1 (IPv4 only)
\* got id 5 for its request, which is still in flight, and 65533 other
\* requests, all finished since, moved the counter on to 2^16 + 2, so that
\* the next ids are 3 and 4, issued after the wrap.
WrapDomain == Fqdn(<<"example.com">>)

InFlightCall ==
    [IdleCall EXCEPT !.pc = "find", !.domain = WrapDomain,
                     !.option = [IPv4Enable |-> TRUE, IPv6Enable |-> FALSE],
                     !.phase = "loop", !.nsent = 1]

InitWrap ==
    /\ now = 0
    /\ ips = << >>
    /\ cleanupRunning = FALSE
    /\ ctx = [c \in Calls |-> "active"]
    /\ \/ /\ reqID = Counter(0, Mod16 - 2)
          /\ call = [c \in Calls |-> IdleCall]
          /\ sub = [c \in Calls |-> [sub4 |-> NoSub, sub6 |-> NoSub]]
          /\ waiter = [c \in Calls |-> [pc |-> "none", done |-> FALSE]]
          /\ req = [c \in Calls |-> [t \in ReqTypes |-> NoReq]]
       \/ /\ reqID = Counter(1, 2)
          /\ call = [c \in Calls |-> IF c = 1 THEN InFlightCall ELSE IdleCall]
          /\ sub = [c \in Calls |->
                      IF c = 1 THEN [sub4 |-> Subscribe(Topic(WrapDomain, "4")),
                                     sub6 |-> NoSub]
                      ELSE [sub4 |-> NoSub, sub6 |-> NoSub]]
          /\ waiter = [c \in Calls |->
                         IF c = 1 THEN [pc |-> "wait4", done |-> FALSE]
                         ELSE [pc |-> "none", done |-> FALSE]]
          /\ req = [c \in Calls |-> [t \in ReqTypes |->
                      IF c = 1 /\ t = "A" THEN [st |-> "sent", ReqID |-> 5]
                      ELSE NoReq]]

SpecWrap == InitWrap /\ [][Next]_vars

\* =================================================================== claims
BoolOptions == [IPv4Enable : BOOLEAN, IPv6Enable : BOOLEAN]
OnlyV4 == [IPv4Enable |-> TRUE, IPv6Enable |-> FALSE]
OnlyV6 == [IPv4Enable |-> FALSE, IPv6Enable |-> TRUE]
BothFamilies == [IPv4Enable |-> TRUE, IPv6Enable |-> TRUE]

\* the cached answer of a family of a domain, Nil when there is none
Slot(store, domain, reqType) ==
    IF domain \notin DOMAIN store THEN Nil
    ELSE IF reqType = "A" THEN store[domain].A ELSE store[domain].AAAA

\* the IPs of a list of addresses
IPsOf(addrs) == [i \in 1..Len(addrs) |-> addrs[i].ip]

\* call c took a step of its own (a sweep may only unlink its record)
Stepped(c) == call'[c].pc # call[c].pc \/ call'[c].find # call[c].find

IsHit(out) == out.err # errRecordNotFound

\* C1: for every store and every option set, findIPsForDomain returns Miss
\* exactly when no requested family has a cached answer; the empty-response
\* error when no requested family has addresses but one has a cached answer
\* (also when the other requested family's slot is absent); and otherwise
\* the IPv4 addresses followed by the IPv6 addresses of the requested
\* families, and of no other.
C1_Trichotomy ==
    \A d \in FqdnDomains, o \in BoolOptions :
        LET out == findIPsForDomain(ips, d, o)
            a4 == IF o.IPv4Enable THEN Slot(ips, d, "A") ELSE Nil
            a6 == IF o.IPv6Enable THEN Slot(ips, d, "AAAA") ELSE Nil
        IN  /\ (out.err = errRecordNotFound) <=> (a4 = Nil /\ a6 = Nil)
            /\ (a4.IP = <<>> /\ a6.IP = <<>> /\ (a4 # Nil \/ a6 # Nil))
                  => out = [ips |-> <<>>, err |-> ErrEmptyResponse]
            /\ (a4.IP # <<>> \/ a6.IP # <<>>)
                  => out = [ips |-> IPsOf(a4.IP \o a6.IP), err |-> ErrNone]

\* a store where IPv6 has a cached empty answer and IPv4 has none, and a
\* lookup of both families answers with the empty-response error
C1_Witness ==
    \E d \in DOMAIN ips :
        /\ ips[d].A = Nil
        /\ ips[d].AAAA # Nil
        /\ ips[d].AAAA.IP = <<>>
        /\ findIPsForDomain(ips, d, BothFamilies).err = ErrEmptyResponse
        /\ findIPsForDomain(ips, d, OnlyV4).err = errRecordNotFound

\* the request of call c for family t is merged by this step (updateIP)
Merges(c, t) == req[c][t].st = "got" /\ req'[c][t].st = "end"

\* C2: once an answer with request sequence n is cached for a domain and
\* family, merging a candidate with sequence m whose signed 16-bit difference
\* m - n is negative leaves that family's cached answer unchanged, whatever
\* the order in which the replies of requests in flight arrive.
C2_OlderRejected ==
    \A c \in Calls, t \in ReqTypes :
        req[c][t].st \in {"sent", "got"}
        => LET cached == Slot(ips, call[c].domain, t)
           IN  (cached # Nil /\ Signed16(req[c][t].ReqID - cached.ReqID) < 0)
               => \A a \in AnswersFor(t) :
                     Slot(updateIP(ips, call[c].domain, t,
                                   parseResponse(req[c][t].ReqID, a, now)),
                          call[c].domain, t) = cached

C2_OlderStep ==
    \A c \in Calls, t \in ReqTypes :
        LET cached == Slot(ips, call[c].domain, t)
        IN  (/\ Merges(c, t)
             /\ cached # Nil
             /\ Signed16(req[c][t].ReqID - cached.ReqID) < 0)
            => Slot(ips', call[c].domain, t) = cached

C2_FreshnessMonotonicity == [](C2_OlderRejected) /\ [][C2_OlderStep]_vars

\* the reply of the older request has arrived and is about to be merged over
\* the cached answer of the newer one, which the merge keeps
C2_Witness ==
    \E c \in Calls, t \in ReqTypes :
        LET cached == Slot(ips, call[c].domain, t)
        IN  /\ req[c][t].st = "got"
            /\ req[c][t].ReqID = 1
            /\ cached # Nil
            /\ cached.ReqID = 2
            /\ \A a \in AnswersFor(t) :
                  updateIP(ips, call[c].domain, t,
                           parseResponse(req[c][t].ReqID, a, now)) = ips

\* C3 as amended: for two replies of the same domain and family with
\* sequences a and b whose signed 16-bit difference b - a is positive (for
\* instance a = 65535 issued before the wrap and b = 0 after it), merging b
\* over the cached answer of a replaces it and merging a over the cached
\* answer of b leaves it.
C3_WrapStep ==
    \A c \in Calls, t \in ReqTypes :
        LET cached == Slot(ips, call[c].domain, t)
            after == Slot(ips', call[c].domain, t)
            d == Signed16(req[c][t].ReqID - cached.ReqID)
        IN  (Merges(c, t) /\ cached # Nil)
            => /\ d > 0 => after.ReqID = req[c][t].ReqID
               /\ d < 0 => after = cached

C3_WrapOrdering == [][C3_WrapStep]_vars

\* the replies with sequences 65535 (before the wrap) and 0 (after it) were
\* both merged and the store holds the answer of 0
C3_Witness ==
    /\ reqID = Counter(1, 0)
    /\ \E t \in ReqTypes :
          /\ \A c \in Calls : req[c][t].st = "end" /\ call[c].domain = WrapDomain
          /\ Slot(ips, WrapDomain, t) # Nil
          /\ Slot(ips, WrapDomain, t).ReqID = 0

\* C3 as stated: with a = 5 issued before the wrap and b = 3 issued after
\* it, once both replies are merged the store holds the answer of b
C3_Original ==
    (/\ reqID = Counter(1, 3)
     /\ \A c \in Calls : req[c]["A"].st = "end" /\ call[c].domain = WrapDomain
     /\ Slot(ips, WrapDomain, "A") # Nil)
    => Slot(ips, WrapDomain, "A").ReqID = 3

\* the topic of family t on which call c subscribed is neither published
\* nor closed
Unpublished(c, t) ==
    IF t = "A" THEN sub[c].sub4.st = "open" ELSE sub[c].sub6.st = "open"

\* C5 as stated: a call for both families that waits at the select while a
\* lookup would give addresses, one of its topics being published, is let
\* go on by that publish alone: done is closed, or the goroutine that closes
\* it can get there without a further publish or a cancellation.
C5_Original ==
    \A c \in Calls :
        (/\ call[c].pc = "select"
         /\ call[c].option = BothFamilies
         /\ ctx[c] = "active"
         /\ findIPsForDomain(ips, call[c].domain, call[c].option).err = ErrNone)
        => \/ waiter[c].done
           \/ waiter[c].pc = "wait4" /\ ~Unpublished(c, "A") /\ ~Unpublished(c, "AAAA")
           \/ waiter[c].pc = "wait6" /\ ~Unpublished(c, "AAAA")

\* C7: when the AAAA answer cached for a domain has no addresses, a lookup
\* for IPv6 only gives the empty-response error and no addresses; a call for
\* IPv6 only whose lookup ends on that answer returns this error at once and
\* dispatches nothing by that step; and such a call that returned it from
\* its first lookup has dispatched no query at all.
C7_Lookup ==
    \A d \in DOMAIN ips :
        (ips[d].AAAA # Nil /\ ips[d].AAAA.IP = <<>>)
        => findIPsForDomain(ips, d, OnlyV6) = [ips |-> <<>>, err |-> ErrEmptyResponse]

C7_Repeated ==
    \A c \in Calls :
        (/\ call[c].option = OnlyV6
         /\ call[c].pc = "done"
         /\ call[c].phase = "check"
         /\ call[c].result.err = ErrEmptyResponse)
        => /\ call[c].nsent = 0
           /\ \A t \in ReqTypes : req[c][t] = NoReq

C7_Step ==
    \A c \in Calls :
        (/\ call[c].option = OnlyV6
         /\ call[c].pc = "find"
         /\ call[c].find.pc = "chk6"
         /\ call'[c].find # call[c].find
         /\ SeenRecord(c).AAAA # Nil)
        => /\ call'[c].pc = "done"
           /\ call'[c].result = [ips |-> <<>>, err |-> ErrEmptyResponse]
           /\ call'[c].nsent = call[c].nsent
           /\ req' = req /\ reqID' = reqID

C7_EmptyAnswerCached == [](C7_Lookup /\ C7_Repeated) /\ [][C7_Step]_vars

\* call 1 asked for IPv6 only, dispatched one query and returned the
\* empty-response error; call 2, the same call again, returned it from the
\* cached answer and dispatched nothing
C7_Witness ==
    /\ \A c \in Calls : /\ call[c].pc = "done"
                        /\ call[c].option = OnlyV6
                        /\ call[c].domain = Fqdn(<<"example.com">>)
                        /\ call[c].result = [ips |-> <<>>, err |-> ErrEmptyResponse]
    /\ call[1].phase = "loop" /\ call[1].nsent = 1 /\ req[1]["AAAA"] = EndReq
    /\ call[2].phase = "check" /\ call[2].nsent = 0 /\ req[2]["AAAA"] = NoReq
    /\ Slot(ips, Fqdn(<<"example.com">>), "AAAA").IP = <<>>
    /\ Slot(ips, Fqdn(<<"example.com">>), "AAAA") # Nil

\* C8 as stated: a call for the host name of the upstream itself dispatches
\* nothing and returns a usage error; it does not go on to wait for the
\* store or for its context
C8_Original ==
    \A c \in Calls :
        IsSelfQuery(ServerName, call[c].domain)
        => /\ call[c].nsent = 0
           /\ call[c].pc # "select"
           /\ call[c].pc = "done" => call[c].result.err \notin {ErrNone, ErrCtx}

\* ---- C4
\* call c is under way, for one family of a domain other than the upstream
C4_Waiting(c) ==
    /\ call[c].pc \notin {"idle", "done"}
    /\ Families(call[c].option) = 1
    /\ ~IsSelfQuery(ServerName, call[c].domain)

\* the family call c asked for
FamilyOf(c) == IF call[c].option.IPv4Enable THEN "A" ELSE "AAAA"

C4_Returned(c) ==
    /\ call[c].pc = "done"
    /\ call[c].result.err = ErrNone
    /\ call[c].result.ips = IPsOf(Slot(ips, call[c].domain, FamilyOf(c)).IP)
    /\ Len(call[c].result.ips) > 0

\* the case of the claim is over for call c: a context was cancelled, time
\* has passed towards the expiry of the answer, another call is for another
\* domain or family, a reply without addresses was merged (it is cached, or
\* a lookup under way has read it), or nothing is cached while every query
\* dispatched has ended and no call is about to dispatch one
C4_Off(c) ==
    \/ \E b \in Calls : ctx[b] = "done"
    \/ now > 0
    \/ \E b \in Calls : /\ call[b].pc # "idle"
                        /\ \/ call[b].domain # call[c].domain
                           \/ call[b].option # call[c].option
    \/ /\ Slot(ips, call[c].domain, FamilyOf(c)) # Nil
       /\ Slot(ips, call[c].domain, FamilyOf(c)).IP = <<>>
    \/ \E b \in Calls : call[b].find.pc \in {"chk4", "chk6"}
    \/ /\ \A b \in Calls, t \in ReqTypes : req[b][t].st \notin {"sent", "got"}
       /\ \A b \in Calls : \/ call[b].pc \in {"idle", "done", "select"}
                           \/ call[b].pc = "find" /\ call[b].phase = "loop"
       /\ Slot(ips, call[c].domain, FamilyOf(c)) = Nil

\* C4: of the calls under way for the same uncached domain and the same
\* single family, each returns the addresses once a query dispatched by any
\* of them has succeeded with addresses (the others failing); none stays
\* blocked until its context is done.
C4_CoalescingWakeUp ==
    \A c \in Calls : C4_Waiting(c) ~> (C4_Returned(c) \/ C4_Off(c))

\* both calls missed and dispatched, the query of call 1 failed, that of
\* call 2 was merged with addresses, and both calls returned them
C4_Witness ==
    /\ \A c \in Calls : /\ C4_Returned(c)
                        /\ call[c].option = OnlyV4
                        /\ call[c].domain = Fqdn(<<"example.com">>)
                        /\ call[c].phase = "loop"
                        /\ call[c].nsent = 1
                        /\ ctx[c] = "active"
    /\ now = 0
    /\ req[1]["A"] = FailedReq
    /\ req[2]["A"] = EndReq

\* ---- C10
\* a call returns from its wait loop with the error of its context, which
\* is done, or with what a lookup that did not miss gave
C10_ReturnStep ==
    \A c \in Calls :
        (call[c].phase = "loop" /\ call[c].pc # "done" /\ call'[c].pc = "done")
        => \/ /\ call[c].pc = "select"
              /\ ctx[c] = "done"
              /\ call'[c].result = [ips |-> <<>>, err |-> ErrCtx]
           \/ /\ call[c].pc = "find"
              /\ call'[c].result.err \notin {errRecordNotFound, ErrCtx}

\* C10: a call whose context is done (cancelled, or past its deadline)
\* returns in the end, whether or not its queries have ended and whether or
\* not a topic was published; from the wait loop it returns the error of
\* the context unless a lookup has stopped missing.
C10_CancellationHonoured ==
    /\ \A c \in Calls : (ctx[c] = "done") ~> (call[c].pc = "done")
    /\ [][C10_ReturnStep]_vars

\* call 1 waited with its query still in flight and no topic published, its
\* context was cancelled, and it returned the error of the context
C10_Witness ==
    /\ call[1].pc = "done"
    /\ call[1].phase = "loop"
    /\ call[1].result = [ips |-> <<>>, err |-> ErrCtx]
    /\ ctx[1] = "done"
    /\ ips = << >>
    /\ \E t \in ReqTypes : req[1][t].st = "sent"

\* C6: a call without cache bypass whose first lookup is a hit (addresses or
\* the empty answer) returns that result in the same step, dispatches no
\* request and subscribes to nothing; a call that returned from the first
\* lookup has dispatched nothing and holds no subscription.
C6_HitReturns ==
    \A c \in Calls :
        LET l == FindStep(call[c].find, call[c].option, SeenFound(c), SeenRecord(c))
        IN  (/\ call[c].pc = "find"
             /\ call[c].phase = "check"
             /\ Stepped(c)
             /\ l.pc = "ret"
             /\ IsHit(l.out))
            => /\ call'[c].pc = "done"
               /\ call'[c].result = l.out
               /\ call'[c].nsent = 0
               /\ UNCHANGED <<req, reqID, sub, waiter>>

C6_NoDispatch ==
    \A c \in Calls :
        (call[c].pc = "done" /\ call[c].phase = "check")
        => /\ IsHit(call[c].result)
           /\ call[c].nsent = 0
           /\ \A t \in ReqTypes : req[c][t] = NoReq
           /\ sub[c] = [sub4 |-> NoSub, sub6 |-> NoSub]
           /\ waiter[c].pc = "none"

C6_CacheHitSendsNothing == [](C6_NoDispatch) /\ [][C6_HitReturns]_vars

\* a second call for the same domain and options returned the first call's
\* addresses from the cache, with no request of its own
C6_Witness ==
    \E c, b \in Calls :
        /\ c # b
        /\ call[c].pc = "done" /\ call[c].phase = "loop" /\ call[c].nsent = 1
        /\ call[b].pc = "done" /\ call[b].phase = "check" /\ call[b].nsent = 0
        /\ call[b].domain = call[c].domain
        /\ call[b].option = call[c].option
        /\ call[b].result = call[c].result
        /\ call[b].result.ips # <<>>
        /\ reqID = Counter(0, 1)

\* C9: a call that has returned gave addresses and no error, or the
\* empty-response error, or the context's error; never errRecordNotFound and
\* never the failure of a request.
C9_ErrorSurface ==
    \A c \in Calls :
        call[c].pc = "done"
        => \/ call[c].result.err = ErrNone /\ call[c].result.ips # <<>>
           \/ call[c].result = [ips |-> <<>>, err |-> ErrEmptyResponse]
           \/ call[c].result = [ips |-> <<>>, err |-> ErrCtx]

\* a call whose request failed has returned, with the context's error
C9_Witness ==
    \E c \in Calls :
        /\ call[c].pc = "done"
        /\ call[c].result.err = ErrCtx
        /\ \E t \in ReqTypes : req[c][t].st = "failed"

\* ---- C11
\* the step is the cancellation of the context of call a, or what follows
\* from it: the return of a by the case ctx.Done(), a wait of its goroutine
\* given up, a request of a aborted
CancelStepOf(a) ==
    \/ ctx[a] = "active" /\ ctx'[a] = "done"
    \/ /\ ctx[a] = "done"
       /\ \/ call[a].pc = "select" /\ call'[a].pc = "done" /\ call'[a].result.err = ErrCtx
          \/ waiter'[a] # waiter[a]
          \/ \E t \in ReqTypes : req[a][t].st = "sent" /\ req'[a][t] = FailedReq

C11_Frame ==
    \A a \in Calls :
        CancelStepOf(a)
        => /\ ips' = ips
           /\ \A b \in Calls \ {a} :
                 /\ ctx'[b] = ctx[b]
                 /\ req'[b] = req[b]
                 /\ sub'[b] = sub[b]
                 /\ waiter'[b] = waiter[b]
                 /\ call'[b] = call[b]

\* call b has left the case: its own context is done, a reply without
\* addresses was merged for its family (it is cached, or the lookup of b
\* has read it), or nothing is cached for its family while no query of its
\* family is in flight or about to be dispatched
C11_Off(b) ==
    \/ ctx[b] = "done"
    \/ /\ Slot(ips, call[b].domain, FamilyOf(b)) # Nil
       /\ Slot(ips, call[b].domain, FamilyOf(b)).IP = <<>>
    \/ call[b].find.pc \in {"chk4", "chk6"}
    \/ /\ \A d \in Calls : req[d][FamilyOf(b)].st \notin {"sent", "got"}
       /\ \A d \in Calls : \/ call[d].pc \in {"idle", "done", "select"}
                           \/ call[d].pc = "find" /\ call[d].phase = "loop"
       /\ Slot(ips, call[b].domain, FamilyOf(b)) = Nil

\* C11: the cancellation of the context of a call a, and what follows from
\* it, changes neither the store nor the context, the queries, the
\* subscriptions or the progress of another call b; and a call b for one
\* family whose own context is not cancelled returns the addresses once a
\* reply with addresses is merged, whatever happens to the other contexts.
C11_CancellationIndependence ==
    /\ [][C11_Frame]_vars
    /\ \A b \in Calls : C4_Waiting(b) ~> (C4_Returned(b) \/ C11_Off(b))

\* call 1 was cancelled with its query in flight and returned the error of
\* its context; call 2, for the same domain, returned the addresses of its
\* own reply
C11_Witness ==
    /\ call[1].pc = "done" /\ call[1].result.err = ErrCtx /\ ctx[1] = "done"
    /\ call[1].nsent = 1 /\ req[1]["A"] = FailedReq
    /\ call[2].domain = call[1].domain
    /\ call[2].option = OnlyV4 /\ call[1].option = OnlyV4
    /\ C4_Returned(2) /\ call[2].phase = "loop"
    /\ ctx[2] = "active" /\ req[2]["A"] = EndReq

\* ---- C12
\* C12 as stated: the queries of a call that has returned because its
\* context was cancelled are not cancelled: a query still in flight can get
\* its reply
C12_Original ==
    \A c \in Calls, t \in ReqTypes :
        (/\ call[c].pc = "done"
         /\ call[c].result.err = ErrCtx
         /\ req[c][t].st = "sent")
        => ENABLED ReqReply(c, t)

\* ---- C13
\* the instants at which Cleanup may run
Instants == 0..(MaxTime + 1)

\* C13 as amended: for every store and instant, a second Cleanup at the
\* same instant with no merge in between leaves the store as the first run
\* left it; it reports "nothing to do" exactly when the first run left the
\* store empty, and reports no error when unexpired entries remain.
C13_Idempotence ==
    \A t \in Instants :
        LET first == Cleanup(ips, t)
            second == Cleanup(first.ips, t)
        IN  /\ second.ips = first.ips
            /\ second.err = NothingToDo <=> DOMAIN first.ips = {}
            /\ DOMAIN first.ips # {} => second.err = ErrNone

\* the store holds an expired answer and one that is not: the first run
\* removes the one, the second run changes nothing and reports no error
C13_Witness ==
    LET first == Cleanup(ips, now)
        second == Cleanup(first.ips, now)
    IN  /\ first.ips # ips
        /\ DOMAIN first.ips # {}
        /\ second.ips = first.ips
        /\ second.err = ErrNone

\* C13 as stated: the second run reports "nothing to do" also when the
\* store still holds unexpired entries
C13_Original ==
    \A t \in Instants :
        LET first == Cleanup(ips, t)
            second == Cleanup(first.ips, t)
        IN  second.ips = first.ips /\ second.err = NothingToDo

\* ---- C14
\* call c is past its sendQuery
PastSend(c) == call[c].phase = "loop" /\ call[c].pc \in {"find", "select", "done"}

\* the requests of call c are those of the families of its option
OwnBatch(c) ==
    /\ call[c].nsent = Families(call[c].option)
    /\ req[c]["A"] # NoReq <=> call[c].option.IPv4Enable
    /\ req[c]["AAAA"] # NoReq <=> call[c].option.IPv6Enable

RECURSIVE SentUpTo(_)
SentUpTo(n) == IF n = 0 THEN 0 ELSE call[n].nsent + SentUpTo(n - 1)

Released(c) ==
    /\ sub[c].sub4.st \in {"nil", "closed"}
    /\ sub[c].sub6.st \in {"nil", "closed"}

\* the goroutine of call c that waits on its subscriptions has ended, or
\* was never started
HelperEnded(c) == waiter[c].pc \in {"none", "exit"}

\* C15: a call that has returned, by whichever exit, has released every
\* subscription it registered; and the goroutine it started to wait on them
\* ends, also when the context of the call is never cancelled.
C15_NoLeakedWaiters ==
    /\ [](\A c \in Calls : call[c].pc = "done" => Released(c))
    /\ \A c \in Calls : (call[c].pc = "done") ~> HelperEnded(c)

\* call 2 bypassed the cache, subscribed, and returned the addresses call 1
\* had brought; its own query failed, its context is not cancelled, its
\* subscription is released and its goroutine has ended
C15_Witness ==
    /\ call[2].pc = "done" /\ call[2].phase = "loop"
    /\ call[2].result.err = ErrNone
    /\ ctx[2] = "active"
    /\ req[2]["A"] = FailedReq
    /\ sub[2].sub4.st = "closed" /\ sub[2].sub6.st = "nil"
    /\ waiter[2].pc = "exit"
    /\ call[1].pc = "done" /\ Released(1) /\ HelperEnded(1)

\* ---- C16
\* every domain of the store has an answer for one family at least
NoEmptyRecord(store) == \A d \in DOMAIN store : store[d] # EmptyRecord

\* no answer of the store expires before t
NoneExpired(store, t) ==
    \A d \in DOMAIN store :
        /\ store[d].A # Nil => ~(store[d].A.Expire < t)
        /\ store[d].AAAA # Nil => ~(store[d].AAAA.Expire < t)

\* a run of the cleanup task that changes the store
SweepStep ==
    /\ cleanupRunning
    /\ ips' # ips
    /\ UNCHANGED <<now, reqID, sub, waiter, ctx, req>>

\* C16: the store Cleanup leaves at time t holds no answer that expires
\* before t and no domain without an answer, for every reachable store and
\* every t, and so after every run of the cleanup task; and in every
\* reachable state every domain of the store has an answer for one family
\* at least.
C16_Inv ==
    /\ NoEmptyRecord(ips)
    /\ \A t \in Instants :
          /\ NoneExpired(Cleanup(ips, t).ips, t)
          /\ NoEmptyRecord(Cleanup(ips, t).ips)

C16_Step == SweepStep => NoneExpired(ips', now) /\ NoEmptyRecord(ips')

C16_SweeperPostcondition == [](C16_Inv) /\ [][C16_Step]_vars

\* a call for both families had both replies merged; the IPv4 answer has
\* expired and was swept, the IPv6 answer has not and is kept
C16_Witness ==
    \E c \in Calls :
        /\ call[c].option = BothFamilies
        /\ req[c]["A"] = EndReq /\ req[c]["AAAA"] = EndReq
        /\ Slot(ips, call[c].domain, "A") = Nil
        /\ Slot(ips, call[c].domain, "AAAA") # Nil
        /\ ~(Slot(ips, call[c].domain, "AAAA").Expire < now)
        /\ now > 0

\* ---- C17
\* the lookup of call c has read a slot of the record of its domain and has
\* a read of that record still to do
BetweenReads(c) ==
    /\ call[c].pc = "find"
    /\ call[c].find.pc \in {"read6", "chk4", "chk6"}
    /\ call[c].record = "live"

\* the step writes the record of the domain of call c: updateIP stores an
\* answer in it, or Cleanup clears a slot of it or deletes it
WritesRecordOf(c) ==
    /\ call[c].domain \in DOMAIN ips
    /\ \/ call[c].domain \notin DOMAIN ips'
       \/ ips'[call[c].domain] # ips[call[c].domain]

\* C17 as stated: no write of Cleanup or updateIP to the slots of a record
\* comes between the reads a lookup performs of them
C17_NoWriteBetweenReads ==
    \A c \in Calls : BetweenReads(c) => ~WritesRecordOf(c)

C17_Original == [][C17_NoWriteBetweenReads]_vars

\* ---- C18
\* a call with disableCache has neither looked up nor returned before its
\* sendQuery
C18_NoLookup ==
    \A c \in Calls :
        call[c].phase = "bypass"
        => /\ call[c].pc \in {"subscribe", "send"}
           /\ call[c].nsent = 0
           /\ call[c].result = NoResult
           /\ call[c].find = FindStart

\* the sendQuery of a call with disableCache dispatches the query of the
\* first family requested
BypassDispatches(c) ==
    (call[c].phase = "bypass" /\ call'[c].phase # "bypass")
    => /\ call'[c].phase = "loop"
       /\ call'[c].nsent = 1
       /\ req'[c][FamilyOf(c)].st = "sent"
       /\ call[c].option = BothFamilies => call'[c].pc = "send6"

C18_Step ==
    \A c \in Calls :
        ~IsSelfQuery(ServerName, call[c].domain) => BypassDispatches(c)

SubOf(c, t) == IF t = "A" THEN sub[c].sub4 ELSE sub[c].sub6

\* while a query of a call is under way the call's subscription for that
\* family is registered on the topic updateIP will publish on, unless the
\* call has returned and released it
C19_Registered ==
    \A c \in Calls, t \in ReqTypes :
        req[c][t].st \in {"sent", "got"}
        => /\ SubOf(c, t).st # "nil"
           /\ SubOf(c, t).name = PublishTopic(call[c].domain, t)
           /\ SubOf(c, t).st = "closed" => call[c].pc = "done"

\* the publish of the reply to a query of call c reaches the subscription
\* of c that is still waiting for it
C19_Delivered ==
    \A c \in Calls, t \in ReqTypes :
        (Merges(c, t) /\ SubOf(c, t).st = "open")
        => (IF t = "A" THEN sub'[c].sub4 ELSE sub'[c].sub6).st = "signalled"

\* C19: the subscriptions of a call for all the families it asks for are
\* registered before any of its queries is dispatched, so that in every
\* interleaving the publish of the reply to its own query is delivered to
\* its subscription.
C19_NoLostWakeUp == [](C19_Registered) /\ [][C19_Delivered]_vars

\* call 1 missed and waits at the select; the reply to its own query was
\* merged and published, its subscription is signalled and done is closed
C19_Witness ==
    /\ call[1].pc = "select" /\ call[1].nsent = 1
    /\ call[1].option = OnlyV4
    /\ req[1]["A"] = EndReq
    /\ sub[1].sub4.st = "signalled"
    /\ waiter[1].done
    /\ call[2].pc = "idle"

\* ---- C20
\* the topic of a family, written out: domain + "4" for A, domain + "6" for
\* AAAA
OwnTopic(domain, t) == domain \o (IF t = "A" THEN <<"4">> ELSE <<"6">>)

\* subscription x after a publish on topic: woken if it waits on topic,
\* untouched otherwise
AfterPublish(x, topic) ==
    IF x.st = "open" /\ x.name = topic THEN [x EXCEPT !.st = "signalled"] ELSE x

\* the request of call c for family t fails by this step
Fails(c, t) == req[c][t].st \in {"sent", "got"} /\ req'[c][t] = FailedReq

C20_Step ==
    \A c \in Calls, t \in ReqTypes :
        /\ Merges(c, t)
           => \A b \in Calls :
                 /\ sub'[b].sub4 = AfterPublish(sub[b].sub4, OwnTopic(call[c].domain, t))
                 /\ sub'[b].sub6 = AfterPublish(sub[b].sub6, OwnTopic(call[c].domain, t))
        /\ Fails(c, t) => sub' = sub /\ ips' = ips

\* C20: the updateIP of a reply wakes the subscriptions waiting on the
\* topic of its own domain and family, and no subscription on another
\* topic, whether or not the answer was stored; a query that fails
\* publishes nothing and leaves the store as it is.
C20_PublishOnOwnTopic == [][C20_Step]_vars

\* the reply with id 3 has arrived while the answer of id 5 is cached and
\* call 2 waits on the topic: updateIP leaves the store as it is for every
\* answer the reply may carry, and its publish wakes call 2
C20_Witness ==
    /\ req[2]["A"] = [st |-> "got", ReqID |-> 3]
    /\ Slot(ips, call[2].domain, "A").ReqID = 5
    /\ sub[2].sub4.st = "open"
    /\ \A a \in AnswersFor("A") :
          updateIP(ips, call[2].domain, "A", parseResponse(3, a, now)) = ips
    /\ Publish(sub, PublishTopic(call[2].domain, "A"))[2].sub4.st = "signalled"
    /\ Publish(sub, PublishTopic(call[2].domain, "A"))[2].sub6 = sub[2].sub6

====
